---- MODULE Spec2Model ----
(***************************************************************************)
(* Model of audit_metrics.py: a one-shot tool that fetches the metric      *)
(* names and the active scrape targets from Prometheus, classifies the     *)
(* names by source, aggregates the targets by job and prints a report.     *)
(*                                                                         *)
(* A Python str is modelled as a sequence of one-character strings, so     *)
(* that `in` (substring), str.startswith and the ordering used by sorted() *)
(* are computed on characters, as the interpreter computes them.           *)
(***************************************************************************)
EXTENDS Integers, Sequences, FiniteSets, TLC

VARIABLES
  pc,           \* the statement of main (or of the function under test) to run next
  args,         \* the parsed command line: [json, show_all]
  sources,      \* the rule table categorize_metrics scans (METRIC_SOURCES)
  metrics,      \* main's metrics
  targets,      \* main's targets
  categorized,  \* main's categorized
  job_stats,    \* job_stats of get_job_stats, also while its loop runs
  ti,           \* position of the loop of get_job_stats in targets
  stdout,       \* what was printed to standard output, in order
  stderr,       \* what was printed to standard error, in order
  exit_code,    \* the exit status, meaningful once pc = "exited"
  steps,        \* history: the steps of main performed so far
  responses     \* history: status line and envelope status of each response

vars == <<pc, args, sources, metrics, targets, categorized, job_stats, ti,
          stdout, stderr, exit_code, steps, responses>>

----------------------------------------------------------------------------
(* Bounds of the model *)

\* longest metric list handed to categorize_metrics in SpecClassify
MaxNames == 3
\* longest target list handed to get_job_stats in SpecJobs
MaxTargets == 3
\* longest name list and target list a server response carries in Spec
MaxFetched == 2

----------------------------------------------------------------------------
(* String literals of the program *)

s_kube == <<"k", "u", "b", "e", "_">>
s_node == <<"n", "o", "d", "e", "_">>
s_container == <<"c", "o", "n", "t", "a", "i", "n", "e", "r", "_">>
s_kubelet == <<"k", "u", "b", "e", "l", "e", "t", "_">>
s_prometheus == <<"p", "r", "o", "m", "e", "t", "h", "e", "u", "s", "_">>
s_alertmanager == <<"a", "l", "e", "r", "t", "m", "a", "n", "a", "g", "e", "r", "_">>
s_grafana == <<"g", "r", "a", "f", "a", "n", "a", "_">>
s_otelcol == <<"o", "t", "e", "l", "c", "o", "l", "_">>
s_up == <<"u", "p">>
s_scrape == <<"s", "c", "r", "a", "p", "e", "_">>
s_scrape_duration_seconds == <<"s", "c", "r", "a", "p", "e", "_", "d", "u", "r", "a", "t", "i", "o", "n", "_", "s", "e", "c", "o", "n", "d", "s">>
s_scrape_samples_scraped == <<"s", "c", "r", "a", "p", "e", "_", "s", "a", "m", "p", "l", "e", "s", "_", "s", "c", "r", "a", "p", "e", "d">>

\* METRIC_SOURCES, in declaration order (a dict iterates in insertion order);
\* only the fields the program reads while classifying and rendering
METRIC_SOURCES ==
  << [prefix |-> s_kube,         name |-> "kube-state-metrics",
      description |-> "Kubernetes object state metrics"],
     [prefix |-> s_node,         name |-> "node-exporter",
      description |-> "Host/node hardware and OS metrics"],
     [prefix |-> s_container,    name |-> "cAdvisor",
      description |-> "Container resource usage and performance metrics"],
     [prefix |-> s_kubelet,      name |-> "Kubelet",
      description |-> "Kubelet component metrics"],
     [prefix |-> s_prometheus,   name |-> "Prometheus",
      description |-> "Prometheus server self-monitoring metrics"],
     [prefix |-> s_alertmanager, name |-> "Alertmanager",
      description |-> "Alertmanager metrics"],
     [prefix |-> s_grafana,      name |-> "Grafana",
      description |-> "Grafana metrics"],
     [prefix |-> s_otelcol,      name |-> "OpenTelemetry Collector",
      description |-> "OTel Collector metrics"],
     [prefix |-> s_up,           name |-> "Prometheus",
      description |-> "Target up/down status (Prometheus internal)"],
     [prefix |-> s_scrape,       name |-> "Prometheus",
      description |-> "Scrape metadata (Prometheus internal)"] >>

RECORDING_RULE_PATTERNS ==
  << <<":">>,
     <<"c", "l", "u", "s", "t", "e", "r", ":">>,
     <<"n", "o", "d", "e", ":">>,
     <<"n", "a", "m", "e", "s", "p", "a", "c", "e", ":">>,
     <<"p", "o", "d", ":">> >>

\* the literal list of line 141
NotRecordingRules == {s_up, s_scrape_duration_seconds, s_scrape_samples_scraped}

----------------------------------------------------------------------------
(* Python built-ins on str, list and dict *)

\* pattern in metric
Contains(pattern, metric) ==
  \E k \in 0..(Len(metric) - Len(pattern)) :
     SubSeq(metric, k + 1, k + Len(pattern)) = pattern

\* metric.startswith(prefix)
StartsWith(metric, prefix) ==
  /\ Len(prefix) <= Len(metric)
  /\ SubSeq(metric, 1, Len(prefix)) = prefix

\* the characters of the modelled names, in code-point order
CodePoints ==
  <<"0", "1", "2", "3", "4", "5", "6", "7", "8", "9", ":", "_",
    "a", "b", "c", "d", "e", "f", "g", "h", "i", "j", "k", "l", "m",
    "n", "o", "p", "q", "r", "s", "t", "u", "v", "w", "x", "y", "z">>

Ord(c) == CHOOSE i \in 1..Len(CodePoints) : CodePoints[i] = c

SetMin(S) == CHOOSE x \in S : \A y \in S : x <= y

\* a < b on str
StrLess(a, b) ==
  LET n    == IF Len(a) < Len(b) THEN Len(a) ELSE Len(b)
      diff == {i \in 1..n : a[i] # b[i]}
  IN  IF diff = {} THEN Len(a) < Len(b)
      ELSE Ord(a[SetMin(diff)]) < Ord(b[SetMin(diff)])

\* insertion of x into the sorted list s, after the elements not greater
InsertSorted(s, x) ==
  LET k == Cardinality({i \in 1..Len(s) : ~StrLess(x, s[i])})
  IN  SubSeq(s, 1, k) \o <<x>> \o SubSeq(s, k + 1, Len(s))

RECURSIVE sorted(_)
sorted(s) ==
  IF s = <<>> THEN <<>>
  ELSE InsertSorted(sorted(SubSeq(s, 1, Len(s) - 1)), s[Len(s)])

\* a dict is a function on the keys it holds
EmptyDict == [k \in {} |-> <<>>]

\* a defect: the list of the key is replaced, not extended
DictAssign(d, key, value) ==
  IF key \in DOMAIN d THEN [d EXCEPT ![key] = <<value>>]
  ELSE d @@ (key :> <<value>>)

\* defaultdict(list)[key].append(value)
DictAppend(d, key, value) ==
  IF key \in DOMAIN d THEN [d EXCEPT ![key] = Append(@, value)]
  ELSE d @@ (key :> <<value>>)

RECURSIVE SumOver(_, _)
\* sum(f[k] for k in S)
SumOver(f, S) ==
  IF S = {} THEN 0
  ELSE LET k == CHOOSE x \in S : TRUE IN f[k] + SumOver(f, S \ {k})

----------------------------------------------------------------------------
(* categorize_metrics *)

\* a defect: the patterns are looked for at the start of the name only
IsRecordingRulePrefix(metric) ==
  \E p \in 1..Len(RECORDING_RULE_PATTERNS) :
     StartsWith(metric, RECORDING_RULE_PATTERNS[p])

\* any(pattern in metric for pattern in RECORDING_RULE_PATTERNS)
is_recording_rule(metric) ==
  \E p \in 1..Len(RECORDING_RULE_PATTERNS) :
     Contains(RECORDING_RULE_PATTERNS[p], metric)

\* a defect: the scan keeps going and the last matching rule wins
LastMatch(metric, rules) ==
  LET m == {i \in 1..Len(rules) : StartsWith(metric, rules[i].prefix)}
  IN  IF m = {} THEN 0 ELSE CHOOSE i \in m : \A j \in m : j <= i

\* the for/break scan of lines 147-151: the index of the first rule whose
\* prefix the metric starts with, 0 when the loop ends without a break
FirstMatch(metric, rules) ==
  LET m == {i \in 1..Len(rules) : StartsWith(metric, rules[i].prefix)}
  IN  IF m = {} THEN 0 ELSE SetMin(m)

\* a defect: no fallback, a name without a known prefix lands in the
\* bucket of the first rule
CategorizeStepNoFallback(acc, metric, rules) ==
  IF is_recording_rule(metric) /\ metric \notin NotRecordingRules
  THEN DictAppend(acc, "Recording Rules", metric)
  ELSE LET r == FirstMatch(metric, rules)
       IN  DictAppend(acc, rules[IF r # 0 THEN r ELSE 1].name, metric)

\* one iteration of the loop of categorize_metrics
CategorizeStep(acc, metric, rules) ==
  IF is_recording_rule(metric) /\ metric \notin NotRecordingRules
  THEN DictAppend(acc, "Recording Rules", metric)
  ELSE LET r == FirstMatch(metric, rules)
       IN  IF r # 0 THEN DictAppend(acc, rules[r].name, metric)
           ELSE DictAppend(acc, "Other/Unknown", metric)

RECURSIVE CategorizeFrom(_, _, _)
CategorizeFrom(acc, ms, rules) ==
  IF ms = <<>> THEN acc
  ELSE CategorizeFrom(CategorizeStep(acc, Head(ms), rules), Tail(ms), rules)

categorize_metrics(ms, rules) == CategorizeFrom(EmptyDict, ms, rules)

----------------------------------------------------------------------------
(* get_job_stats *)

\* target["labels"].get("job", "unknown")
JobOf(target) ==
  IF "job" \in DOMAIN target.labels THEN target.labels.job ELSE "unknown"

\* the defaultdict factory of line 162
NewJobStats == [count |-> 0, up |-> 0, endpoints |-> <<>>]

\* a defect: every target that is not down counts as healthy
UpAfterNotDown(up, health) == IF health # "down" THEN up + 1 ELSE up

\* a defect: a target that is not up resets the tally
UpAfterReset(up, health) == IF health = "up" THEN up + 1 ELSE 0

\* lines 167-168
UpAfter(up, health) == IF health = "up" THEN up + 1 ELSE up

\* a defect: only healthy targets get an endpoint record
EndpointsAfterHealthyOnly(endpoints, target) ==
  IF target.health = "up"
  THEN Append(endpoints, [url |-> target.scrapeUrl, health |-> target.health,
                          labels |-> target.labels])
  ELSE endpoints

\* lines 171-176
EndpointsAfter(endpoints, target) ==
  Append(endpoints, [url |-> target.scrapeUrl, health |-> target.health,
                     labels |-> target.labels])

\* one iteration of the loop of get_job_stats
JobStatsStep(stats, target) ==
  LET job == JobOf(target)
      cur == IF job \in DOMAIN stats THEN stats[job] ELSE NewJobStats
      new == [count     |-> cur.count + 1,
              up        |-> UpAfter(cur.up, target.health),
              endpoints |-> EndpointsAfter(cur.endpoints, target)]
  IN  IF job \in DOMAIN stats THEN [stats EXCEPT ![job] = new]
      ELSE stats @@ (job :> new)

RECURSIVE JobStatsFrom(_, _)
JobStatsFrom(stats, ts) ==
  IF ts = <<>> THEN stats
  ELSE JobStatsFrom(JobStatsStep(stats, Head(ts)), Tail(ts))

get_job_stats(ts) == JobStatsFrom(EmptyDict, ts)

----------------------------------------------------------------------------
(* API client *)

PROMETHEUS_URL == "http://localhost:9090"

\* a defect: only server errors are rejected
RaiseForStatus5xx(status_code) == status_code \in 500..599

\* requests.Response.raise_for_status: raises HTTPError for 4xx and 5xx
raise_for_status(status_code) == status_code \in 400..599

\* query_prometheus: TRUE when requests.get, raise_for_status or
\* response.json raises (lines 107-113).  A body that is not JSON ends the
\* process with status 1 and text on standard error either way: as a caught
\* RequestException, or as an uncaught ValueError with older requests.
query_raises(resp) ==
  \/ resp.kind \in {"ConnectionError", "Timeout"}
  \/ raise_for_status(resp.status_code)
  \/ ~resp.json_ok

\* the message of lines 112, 120 and 129, "" when the call returns
QueryError(resp, what) ==
  IF query_raises(resp) THEN "Error querying Prometheus"
  ELSE IF resp.status # "success"
       THEN IF what = "metrics" THEN "Failed to get metrics from Prometheus"
            ELSE "Failed to get targets from Prometheus"
       ELSE ""

----------------------------------------------------------------------------
(* Reporter *)

\* metrics[:5]
SampleSize == 5

\* lines 204-214
DescriptionOf(source, rules) ==
  IF source = "Recording Rules" THEN "Pre-computed metrics from other metrics"
  ELSE IF source = "Other/Unknown" THEN "Metrics with non-standard prefixes"
  ELSE LET m == {i \in 1..Len(rules) : rules[i].name = source}
       IN  IF m = {} THEN "" ELSE rules[SetMin(m)].description

\* what print_summary renders; the order of the rows is not represented
print_summary(cat, stats, rules) ==
  [ url     |-> PROMETHEUS_URL,
    sources |-> [s \in DOMAIN cat |->
                   [count |-> Len(cat[s]),
                    description |-> DescriptionOf(s, rules)]],
    total   |-> SumOver([s \in DOMAIN cat |-> Len(cat[s])], DOMAIN cat),
    jobs    |-> [j \in DOMAIN stats |->
                   [targets |-> stats[j].count,
                    up      |-> stats[j].up,
                    health  |-> IF stats[j].up = stats[j].count
                                THEN "pass" ELSE "fail"]],
    samples |-> [s \in DOMAIN cat |->
                   [shown |-> SubSeq(cat[s], 1,
                                IF Len(cat[s]) > SampleSize THEN SampleSize
                                ELSE Len(cat[s])),
                    more  |-> IF Len(cat[s]) > SampleSize
                              THEN Len(cat[s]) - SampleSize ELSE 0]] ]

\* a defect: total_metrics counts the buckets, not their members
PrintJsonCountingBuckets(cat, stats) ==
  [ prometheus_url    |-> PROMETHEUS_URL,
    total_metrics     |-> Cardinality(DOMAIN cat),
    metrics_by_source |-> [s \in DOMAIN cat |->
                             [count |-> Len(cat[s]), metrics |-> cat[s]]],
    scrape_targets    |-> [j \in DOMAIN stats |->
                             [target_count |-> stats[j].count,
                              up_count     |-> stats[j].up,
                              endpoints    |-> stats[j].endpoints]] ]

\* the document print_json serialises
print_json(cat, stats) ==
  [ prometheus_url    |-> PROMETHEUS_URL,
    total_metrics     |-> SumOver([s \in DOMAIN cat |-> Len(cat[s])], DOMAIN cat),
    metrics_by_source |-> [s \in DOMAIN cat |->
                             [count |-> Len(cat[s]), metrics |-> cat[s]]],
    scrape_targets    |-> [j \in DOMAIN stats |->
                             [target_count |-> stats[j].count,
                              up_count     |-> stats[j].up,
                              endpoints    |-> stats[j].endpoints]] ]

----------------------------------------------------------------------------
(* Inputs of the model *)

n_kube_pod_info == <<"k", "u", "b", "e", "_", "p", "o", "d", "_", "i", "n", "f", "o">>
n_node_cpu_seconds_total == <<"n", "o", "d", "e", "_", "c", "p", "u", "_", "s", "e", "c", "o", "n", "d", "s", "_", "t", "o", "t", "a", "l">>
n_cluster_node_cpu_sum_rate5m == <<"c", "l", "u", "s", "t", "e", "r", ":", "n", "o", "d", "e", "_", "c", "p", "u", ":", "s", "u", "m", "_", "r", "a", "t", "e", "5", "m">>
n_foo_bar == <<"f", "o", "o", "_", "b", "a", "r">>
n_node_load_avg == <<"n", "o", "d", "e", "_", "l", "o", "a", "d", ":", "a", "v", "g">>
n_upgrade_total == <<"u", "p", "g", "r", "a", "d", "e", "_", "t", "o", "t", "a", "l">>
n_process_uptime == <<"p", "r", "o", "c", "e", "s", "s", "_", "u", "p", "t", "i", "m", "e">>

\* metric names a server may report
Names ==
  { s_up, s_scrape_duration_seconds, s_scrape_samples_scraped,
    n_kube_pod_info, n_node_cpu_seconds_total, n_cluster_node_cpu_sum_rate5m,
    n_foo_bar, n_node_load_avg, n_upgrade_total, n_process_uptime }

\* the names a response carries in Spec
FetchedNames ==
  { s_up, s_scrape_duration_seconds, n_kube_pod_info,
    n_cluster_node_cpu_sum_rate5m, n_foo_bar }

\* a rule whose prefix extends the prefix of the kube_ rule
OverlapRule ==
  [prefix |-> <<"k", "u", "b", "e", "_", "p", "o", "d", "_">>,
   name |-> "pod-metrics", description |-> "Pod metrics"]

\* a rule whose prefix extends both
OverlapRule2 ==
  [prefix |-> <<"k", "u", "b", "e", "_", "p", "o", "d", "_", "i">>,
   name |-> "pod-info", description |-> "Pod info metrics"]

\* rule tables: the program's, and three with overlapping prefixes
RuleSets ==
  { METRIC_SOURCES,
    <<OverlapRule>> \o METRIC_SOURCES,
    METRIC_SOURCES \o <<OverlapRule>>,
    <<OverlapRule>> \o METRIC_SOURCES \o <<OverlapRule2>> }

LabelSets ==
  { [job |-> "node-exporter", instance |-> "10.0.0.1:9100"],
    [job |-> "kubelet", instance |-> "10.0.0.1:9100"],
    [job |-> "unknown", instance |-> "10.0.0.1:9100"],
    [instance |-> "10.0.0.1:9100"] }

Healths == {"up", "down", "unknown"}

\* active targets a server may report
Targets ==
  { [labels |-> l, health |-> h, scrapeUrl |-> "http://10.0.0.1:9100/metrics"] :
      l \in LabelSets, h \in Healths }

\* the targets a response carries in Spec
FetchedTargets ==
  { t \in Targets :
      \/ JobOf(t) = "node-exporter" /\ t.health \in {"up", "down"}
      \/ "job" \notin DOMAIN t.labels /\ t.health = "up" }

SeqsUpTo(S, n) == UNION {[1..k -> S] : k \in 0..n}

\* status codes of a final response: success, a 3xx that carries no Location
\* (requests hands it back as it is), a client error and a server error
StatusCodes == {200, 300, 404, 500}

\* what a GET may come back with: no response at all, a response whose body
\* is not JSON, or a response carrying an envelope
Responses(payloads, none) ==
  { [kind |-> k, status_code |-> 0, json_ok |-> FALSE, status |-> "",
     data |-> none] : k \in {"ConnectionError", "Timeout"} }
  \cup
  { [kind |-> "Response", status_code |-> c, json_ok |-> FALSE, status |-> "",
     data |-> none] : c \in StatusCodes }
  \cup
  { [kind |-> "Response", status_code |-> c, json_ok |-> TRUE, status |-> s,
     data |-> d] : c \in StatusCodes, s \in {"success", "error"}, d \in payloads }

NameResponses == Responses(SeqsUpTo(FetchedNames, MaxFetched), <<>>)

TargetResponses ==
  Responses({[activeTargets |-> ts] : ts \in SeqsUpTo(FetchedTargets, MaxFetched)},
            [activeTargets |-> <<>>])

----------------------------------------------------------------------------
(* main *)

\* a defect: the targets are fetched only after the names were classified
NextStepMisordered(p) ==
  CASE p = "main"               -> "get_all_metrics"
    [] p = "get_all_metrics"    -> "categorize_metrics"
    [] p = "categorize_metrics" -> "get_targets"
    [] p = "get_targets"        -> "get_job_stats"
    [] p = "get_job_stats"      -> "output"
    [] OTHER                    -> "exited"

\* the statements of main in program order (lines 307-322)
NextStep(p) ==
  CASE p = "main"               -> "get_all_metrics"
    [] p = "get_all_metrics"    -> "get_targets"
    [] p = "get_targets"        -> "categorize_metrics"
    [] p = "categorize_metrics" -> "get_job_stats"
    [] p = "get_job_stats"      -> "output"
    [] OTHER                    -> "exited"

\* what the history keeps of a response
Digest(resp) ==
  [kind |-> resp.kind, status_code |-> resp.status_code,
   json_ok |-> resp.json_ok, status |-> resp.status]

Init ==
  /\ pc = "main"
  /\ args \in [json : BOOLEAN, show_all : BOOLEAN]
  /\ sources = METRIC_SOURCES
  /\ metrics = <<>>
  /\ targets = <<>>
  /\ categorized = EmptyDict
  /\ job_stats = EmptyDict
  /\ ti = 1
  /\ stdout = <<>>
  /\ stderr = <<>>
  /\ exit_code = 0
  /\ steps = <<>>
  /\ responses = <<>>

\* lines 300-308: parse the arguments, print the progress line in text mode
Start ==
  /\ pc = "main"
  /\ stdout' = IF ~args.json
               THEN Append(stdout, [kind |-> "status", body |-> "Querying Prometheus..."])
               ELSE stdout
  /\ pc' = NextStep(pc)
  /\ UNCHANGED <<args, sources, metrics, targets, categorized, job_stats, ti,
                 stderr, exit_code, steps, responses>>

\* get_all_metrics returns the sorted names
GetAllMetricsOk ==
  /\ pc = "get_all_metrics"
  /\ \E resp \in NameResponses :
       /\ QueryError(resp, "metrics") = ""
       /\ metrics' = sorted(resp.data)
       /\ responses' = Append(responses, Digest(resp))
  /\ steps' = Append(steps, "get_all_metrics")
  /\ pc' = NextStep(pc)
  /\ UNCHANGED <<args, sources, targets, categorized, job_stats, ti,
                 stdout, stderr, exit_code>>

\* get_all_metrics prints an error and calls sys.exit(1)
GetAllMetricsFail ==
  /\ pc = "get_all_metrics"
  /\ \E resp \in NameResponses :
       /\ QueryError(resp, "metrics") # ""
       /\ stderr' = Append(stderr, QueryError(resp, "metrics"))
       /\ responses' = Append(responses, Digest(resp))
  /\ steps' = Append(steps, "get_all_metrics")
  /\ exit_code' = 1
  /\ pc' = "exited"
  /\ UNCHANGED <<args, sources, metrics, targets, categorized, job_stats, ti,
                 stdout>>

\* get_targets returns data.activeTargets
GetTargetsOk ==
  /\ pc = "get_targets"
  /\ \E resp \in TargetResponses :
       /\ QueryError(resp, "targets") = ""
       /\ targets' = resp.data.activeTargets
       /\ responses' = Append(responses, Digest(resp))
  /\ steps' = Append(steps, "get_targets")
  /\ pc' = NextStep(pc)
  /\ UNCHANGED <<args, sources, metrics, categorized, job_stats, ti,
                 stdout, stderr, exit_code>>

\* get_targets prints an error and calls sys.exit(1)
GetTargetsFail ==
  /\ pc = "get_targets"
  /\ \E resp \in TargetResponses :
       /\ QueryError(resp, "targets") # ""
       /\ stderr' = Append(stderr, QueryError(resp, "targets"))
       /\ responses' = Append(responses, Digest(resp))
  /\ steps' = Append(steps, "get_targets")
  /\ exit_code' = 1
  /\ pc' = "exited"
  /\ UNCHANGED <<args, sources, metrics, targets, categorized, job_stats, ti,
                 stdout>>

\* categorized = categorize_metrics(metrics)
Categorize ==
  /\ pc = "categorize_metrics"
  /\ categorized' = categorize_metrics(metrics, sources)
  /\ steps' = Append(steps, "categorize_metrics")
  /\ pc' = NextStep(pc)
  /\ UNCHANGED <<args, sources, metrics, targets, job_stats, ti,
                 stdout, stderr, exit_code, responses>>

\* one iteration of the loop of get_job_stats
JobStatsIter ==
  /\ pc = "get_job_stats"
  /\ ti <= Len(targets)
  /\ job_stats' = JobStatsStep(job_stats, targets[ti])
  /\ ti' = ti + 1
  /\ UNCHANGED <<pc, args, sources, metrics, targets, categorized,
                 stdout, stderr, exit_code, steps, responses>>

\* the loop of get_job_stats is over: return dict(job_stats)
JobStatsReturn ==
  /\ pc = "get_job_stats"
  /\ ti > Len(targets)
  /\ steps' = Append(steps, "get_job_stats")
  /\ pc' = NextStep(pc)
  /\ UNCHANGED <<args, sources, metrics, targets, categorized, job_stats, ti,
                 stdout, stderr, exit_code, responses>>

\* lines 319-320, then the normal end of the process
OutputJson ==
  /\ pc = "output"
  /\ args.json
  /\ stdout' = Append(stdout, [kind |-> "json",
                               body |-> print_json(categorized, job_stats)])
  /\ steps' = Append(steps, "output")
  /\ exit_code' = 0
  /\ pc' = "exited"
  /\ UNCHANGED <<args, sources, metrics, targets, categorized, job_stats, ti,
                 stderr, responses>>

\* lines 321-327, then the normal end of the process
OutputText ==
  /\ pc = "output"
  /\ ~args.json
  /\ stdout' = LET report == [kind |-> "summary",
                              body |-> print_summary(categorized, job_stats, sources)]
               IN  IF args.show_all
                   THEN stdout \o <<report, [kind |-> "all_metrics", body |-> metrics]>>
                   ELSE Append(stdout, report)
  /\ steps' = Append(steps, "output")
  /\ exit_code' = 0
  /\ pc' = "exited"
  /\ UNCHANGED <<args, sources, metrics, targets, categorized, job_stats, ti,
                 stderr, responses>>

Next ==
  \/ Start
  \/ GetAllMetricsOk
  \/ GetAllMetricsFail
  \/ GetTargetsOk
  \/ GetTargetsFail
  \/ Categorize
  \/ JobStatsIter
  \/ JobStatsReturn
  \/ OutputJson
  \/ OutputText

\* one run of the program
Spec == Init /\ [][Next]_vars

----------------------------------------------------------------------------
(* categorize_metrics on its own, over every short list of names and every *)
(* rule table of RuleSets                                                  *)

InitClassify ==
  /\ pc = "categorize_metrics"
  /\ args = [json |-> FALSE, show_all |-> FALSE]
  /\ sources \in RuleSets
  /\ metrics \in SeqsUpTo(Names, MaxNames)
  /\ targets = <<>>
  /\ categorized = EmptyDict
  /\ job_stats = EmptyDict
  /\ ti = 1
  /\ stdout = <<>>
  /\ stderr = <<>>
  /\ exit_code = 0
  /\ steps = <<>>
  /\ responses = <<>>

NextClassify == Categorize

SpecClassify == InitClassify /\ [][NextClassify]_vars

----------------------------------------------------------------------------
(* get_job_stats on its own, over every short list of targets *)

InitJobs ==
  /\ pc = "get_job_stats"
  /\ args = [json |-> FALSE, show_all |-> FALSE]
  /\ sources = METRIC_SOURCES
  /\ metrics = <<>>
  /\ targets \in SeqsUpTo(Targets, MaxTargets)
  /\ categorized = EmptyDict
  /\ job_stats = EmptyDict
  /\ ti = 1
  /\ stdout = <<>>
  /\ stderr = <<>>
  /\ exit_code = 0
  /\ steps = <<>>
  /\ responses = <<>>

NextJobs == JobStatsIter \/ JobStatsReturn

SpecJobs == InitJobs /\ [][NextJobs]_vars

----------------------------------------------------------------------------
(* Properties of categorize_metrics *)

\* the step of main named s has been performed
HasRun(s) == \E i \in 1..Len(steps) : steps[i] = s

\* the positions of name m in bucket b of categorized
PositionsIn(b, m) ==
  IF b \in DOMAIN categorized
  THEN {k \in 1..Len(categorized[b]) : categorized[b][k] = m}
  ELSE {}

\* the buckets of categorized that hold name m
BucketsOf(m) == {b \in DOMAIN categorized : PositionsIn(b, m) # {}}

\* the number of positions of the input list that hold name m
Occurrences(m) == Cardinality({i \in 1..Len(metrics) : metrics[i] = m})

BucketSizes == [b \in DOMAIN categorized |-> Len(categorized[b])]

\* C1 as stated: once categorize_metrics has returned, every input name is
\* in exactly one bucket and exactly once there, every bucket member is an
\* input name, and the bucket sizes add up to the length of the input.
C1_PartitionExactlyOnce ==
  HasRun("categorize_metrics") =>
    /\ \A i \in 1..Len(metrics) :
         /\ Cardinality(BucketsOf(metrics[i])) = 1
         /\ \A b \in BucketsOf(metrics[i]) :
              Cardinality(PositionsIn(b, metrics[i])) = 1
    /\ \A b \in DOMAIN categorized : \A k \in 1..Len(categorized[b]) :
         \E i \in 1..Len(metrics) : metrics[i] = categorized[b][k]
    /\ SumOver(BucketSizes, DOMAIN categorized) = Len(metrics)

\* C1 amended: once categorize_metrics has returned, every input name is in
\* exactly one bucket, as many times there as it occurs in the input list
\* (once when the list has no repeated name), every bucket member is an
\* input name, and the bucket sizes add up to the length of the input.
C1_PartitionWithMultiplicity ==
  HasRun("categorize_metrics") =>
    /\ \A i \in 1..Len(metrics) :
         /\ Cardinality(BucketsOf(metrics[i])) = 1
         /\ \A b \in BucketsOf(metrics[i]) :
              Cardinality(PositionsIn(b, metrics[i])) = Occurrences(metrics[i])
    /\ \A b \in DOMAIN categorized : \A k \in 1..Len(categorized[b]) :
         \E i \in 1..Len(metrics) : metrics[i] = categorized[b][k]
    /\ SumOver(BucketSizes, DOMAIN categorized) = Len(metrics)

\* a list with a repeated name and a second name of the same bucket has
\* been classified
C1_Witness ==
  /\ HasRun("categorize_metrics")
  /\ Len(metrics) = 3
  /\ Occurrences(s_up) = 2
  /\ Occurrences(n_upgrade_total) = 1
  /\ Len(categorized["Prometheus"]) = 3

\* some pattern of RECORDING_RULE_PATTERNS is a substring of m
HasDerivedPattern(m) ==
  \E p \in 1..Len(RECORDING_RULE_PATTERNS) :
     \E k \in 1..Len(m) :
        /\ k + Len(RECORDING_RULE_PATTERNS[p]) - 1 <= Len(m)
        /\ \A j \in 1..Len(RECORDING_RULE_PATTERNS[p]) :
             m[k + j - 1] = RECORDING_RULE_PATTERNS[p][j]

\* some rule of the table in effect has a prefix that m starts with
MatchingRules(m) ==
  {r \in 1..Len(sources) :
     /\ Len(sources[r].prefix) <= Len(m)
     /\ \A j \in 1..Len(sources[r].prefix) : m[j] = sources[r].prefix[j]}

\* C3: a name is in "Recording Rules" exactly when it contains a derived
\* pattern and is none of up, scrape_duration_seconds, scrape_samples_scraped,
\* whatever prefix it starts with; these three names are in the bucket of
\* their prefix rule, "Prometheus".
C3_RecordingRules ==
  HasRun("categorize_metrics") =>
    \A i \in 1..Len(metrics) :
      /\ ("Recording Rules" \in BucketsOf(metrics[i])) <=>
           (HasDerivedPattern(metrics[i]) /\ metrics[i] \notin
              {s_up, s_scrape_duration_seconds, s_scrape_samples_scraped})
      /\ metrics[i] \in {s_up, s_scrape_duration_seconds, s_scrape_samples_scraped}
           => BucketsOf(metrics[i]) = {"Prometheus"}

\* a name with the node_ prefix and a colon was classified as a recording
\* rule, next to an excluded name and a name of the node_ rule
C3_Witness ==
  /\ HasRun("categorize_metrics")
  /\ BucketsOf(n_node_load_avg) = {"Recording Rules"}
  /\ BucketsOf(s_scrape_samples_scraped) = {"Prometheus"}
  /\ BucketsOf(n_node_cpu_seconds_total) = {"node-exporter"}

\* C4: a name that is not a recording rule goes to the bucket of the first
\* declared rule whose prefix it starts with and to no other bucket, also
\* when later rules match as well.
C4_FirstMatchWins ==
  HasRun("categorize_metrics") =>
    \A i \in 1..Len(metrics) : \A a \in MatchingRules(metrics[i]) :
      ( /\ "Recording Rules" \notin BucketsOf(metrics[i])
        /\ \A b \in MatchingRules(metrics[i]) : a <= b )
      => BucketsOf(metrics[i]) = {sources[a].name}

\* a name that two rules match, under both declaration orders: it is in
\* the bucket of the rule declared first
C4_Witness ==
  /\ HasRun("categorize_metrics")
  /\ Cardinality(MatchingRules(n_kube_pod_info)) >= 2
  /\ \/ sources[1].name = "pod-metrics" /\ BucketsOf(n_kube_pod_info) = {"pod-metrics"}
     \/ sources[1].name = "kube-state-metrics" /\ BucketsOf(n_kube_pod_info) = {"kube-state-metrics"}

\* C5: a name with no derived pattern and no rule prefix is in
\* "Other/Unknown", and "Other/Unknown" holds only such names.
C5_OtherUnknown ==
  HasRun("categorize_metrics") =>
    /\ \A i \in 1..Len(metrics) :
         (~HasDerivedPattern(metrics[i]) /\ MatchingRules(metrics[i]) = {})
           => BucketsOf(metrics[i]) = {"Other/Unknown"}
    /\ "Other/Unknown" \in DOMAIN categorized =>
         \A k \in 1..Len(categorized["Other/Unknown"]) :
            /\ ~HasDerivedPattern(categorized["Other/Unknown"][k])
            /\ MatchingRules(categorized["Other/Unknown"][k]) = {}

\* two names without pattern or prefix, one of them with "up" inside, are
\* in "Other/Unknown"
C5_Witness ==
  /\ HasRun("categorize_metrics")
  /\ "Other/Unknown" \in DOMAIN categorized
  /\ BucketsOf(n_foo_bar) = {"Other/Unknown"}
  /\ BucketsOf(n_process_uptime) = {"Other/Unknown"}
  /\ Len(categorized["Other/Unknown"]) = 2

----------------------------------------------------------------------------
(* Properties of get_job_stats *)

\* the job a target is filed under: its job label, "unknown" without one
JobLabel(t) ==
  IF \E l \in DOMAIN t.labels : l = "job" THEN t.labels["job"] ELSE "unknown"

\* the positions of targets, among the first n, filed under job j
TargetsOf(j, n) == {i \in 1..n : i <= Len(targets) /\ JobLabel(targets[i]) = j}

\* C6: the result of get_job_stats on any permutation of the target list has
\* the same jobs, the same count and the same up per job (hence the same
\* up = count verdict) as the result on the list itself.
C6_OrderInsensitive ==
  HasRun("get_job_stats") =>
    \A p \in Permutations(1..Len(targets)) :
      LET permuted == [i \in 1..Len(targets) |-> targets[p[i]]]
          other    == get_job_stats(permuted)
      IN  /\ DOMAIN other = DOMAIN job_stats
          /\ \A j \in DOMAIN job_stats :
               /\ other[j].count = job_stats[j].count
               /\ other[j].up = job_stats[j].up
               /\ (other[j].up = other[j].count) <=>
                    (job_stats[j].up = job_stats[j].count)

\* three targets of one job, the healthy one not last, and a reordering of
\* them that puts the healthy one last, have been aggregated
C6_Witness ==
  /\ HasRun("get_job_stats")
  /\ Len(targets) = 3
  /\ DOMAIN job_stats = {"kubelet"}
  /\ targets[1].health = "up"
  /\ targets[2].health = "down"
  /\ targets[3].health = "unknown"
  /\ job_stats["kubelet"].up = 1

\* C7: in every state of the loop and in the result, each job has
\* 0 <= up <= count, and up is the number of the job's targets processed so
\* far whose health is "up".
C7_UpAtMostCount ==
  \A j \in DOMAIN job_stats :
    /\ 0 <= job_stats[j].up
    /\ job_stats[j].up <= job_stats[j].count
    /\ job_stats[j].up =
         Cardinality({i \in TargetsOf(j, ti - 1) : targets[i].health = "up"})

\* in the middle of the loop a job has a healthy target, a target whose
\* health is "unknown" and so fewer healthy targets than targets
C7_Witness ==
  /\ pc = "get_job_stats"
  /\ ti = 3
  /\ Len(targets) = 3
  /\ targets[1].health = "up"
  /\ targets[2].health = "unknown"
  /\ "kubelet" \in DOMAIN job_stats
  /\ job_stats["kubelet"].count = 2
  /\ job_stats["kubelet"].up = 1

\* C10: the jobs of the result are the job labels of the targets ("unknown"
\* without a label); the endpoints of a job are the records of exactly its
\* targets, one each, in input order; count is the length of endpoints; and
\* the counts add up to the number of targets.
C10_NoTargetLost ==
  HasRun("get_job_stats") =>
    /\ DOMAIN job_stats = {JobLabel(targets[i]) : i \in 1..Len(targets)}
    /\ \A j \in DOMAIN job_stats :
         LET OfJob(t) == JobLabel(t) = j
             mine     == SelectSeq(targets, OfJob)
         IN  /\ job_stats[j].count = Len(job_stats[j].endpoints)
             /\ Len(job_stats[j].endpoints) = Len(mine)
             /\ \A k \in 1..Len(mine) :
                  /\ job_stats[j].endpoints[k].url = mine[k].scrapeUrl
                  /\ job_stats[j].endpoints[k].health = mine[k].health
                  /\ job_stats[j].endpoints[k].labels = mine[k].labels
    /\ SumOver([j \in DOMAIN job_stats |-> job_stats[j].count], DOMAIN job_stats)
         = Len(targets)

\* a target without a job label, one labelled "unknown" and one of another
\* job, not all healthy, have been aggregated into two jobs
C10_Witness ==
  /\ HasRun("get_job_stats")
  /\ Len(targets) = 3
  /\ DOMAIN job_stats = {"unknown", "node-exporter"}
  /\ job_stats["unknown"].count = 2
  /\ "job" \notin DOMAIN targets[1].labels
  /\ "job" \in DOMAIN targets[3].labels
  /\ targets[3].labels.job = "unknown"
  /\ targets[1].health = "down"

----------------------------------------------------------------------------
(* Properties of a run *)

\* a report, text or JSON, is on standard output
ReportWritten ==
  \E k \in 1..Len(stdout) : stdout[k].kind \in {"summary", "json", "all_metrics"}

\* the run was aborted: exit status 1, a message on standard error, no report
Aborted ==
  /\ pc = "exited"
  /\ exit_code = 1
  /\ stderr # <<>>
  /\ ~ReportWritten

C8_JsonTotals ==
  \A k \in 1..Len(stdout) :
    stdout[k].kind = "json" =>
      LET doc == stdout[k].body
      IN  /\ doc.total_metrics =
               SumOver([b \in DOMAIN doc.metrics_by_source |->
                          doc.metrics_by_source[b].count],
                       DOMAIN doc.metrics_by_source)
          /\ doc.total_metrics = Len(metrics)
          /\ \A b \in DOMAIN doc.metrics_by_source :
               doc.metrics_by_source[b].count =
                 Len(doc.metrics_by_source[b].metrics)
          /\ Len(targets) =
               SumOver([j \in DOMAIN doc.scrape_targets |->
                          doc.scrape_targets[j].target_count],
                       DOMAIN doc.scrape_targets)

\* a JSON document was printed for two names of one bucket and two targets
\* of two jobs
C8_Witness ==
  /\ args.json
  /\ Len(stdout) = 1
  /\ stdout[1].kind = "json"
  /\ stdout[1].body.total_metrics = 2
  /\ Cardinality(DOMAIN stdout[1].body.metrics_by_source) = 1
  /\ Cardinality(DOMAIN stdout[1].body.scrape_targets) = 2

\* the steps of a run, in the only order they may be performed
Pipeline ==
  <<"get_all_metrics", "get_targets", "categorize_metrics", "get_job_stats",
    "output">>

\* C9: the steps performed so far are an initial part of names query,
\* targets query, classification, aggregation, rendering, each once; every
\* request got one response; a request that failed is the last step of the
\* run and leaves nothing classified, aggregated or rendered; aggregation
\* and rendering only work on the results of the steps before them.
C9_LinearPipeline ==
  /\ Len(steps) <= Len(Pipeline)
  /\ \A k \in 1..Len(steps) : steps[k] = Pipeline[k]
  /\ Len(responses) = Cardinality({k \in 1..Len(steps) :
                         steps[k] \in {"get_all_metrics", "get_targets"}})
  /\ exit_code = 1 =>
       /\ pc = "exited"
       /\ steps[Len(steps)] \in {"get_all_metrics", "get_targets"}
       /\ categorized = EmptyDict
       /\ job_stats = EmptyDict
       /\ ~ReportWritten
  /\ (job_stats # EmptyDict \/ ti > 1) => Len(steps) >= 3
  /\ ReportWritten => steps = Pipeline

\* a run went through all five steps, with names and targets to work on,
\* and printed its report
C9_Witness ==
  /\ pc = "exited"
  /\ exit_code = 0
  /\ steps = Pipeline
  /\ Len(metrics) = 2
  /\ Len(targets) = 2
  /\ ReportWritten

====
